---- MODULE Spec2Model ----
(***************************************************************************)
(* The feedback-aware re-ranking core of BI-Assistant: the UCB1 bandit    *)
(* (src/rl/bandit.py), its cached instance and the feedback write path    *)
(* (src/backend/services/feedback_rl.py), the /feedback and /ask handlers *)
(* (src/backend/routers) and the re-ranking retriever                     *)
(* (src/backend/services/rag_pipeline.py).                                *)
(*                                                                         *)
(* Scheduling: both handlers are `async def` functions that call the      *)
(* synchronous service code without awaiting anything, so a handler runs  *)
(* on the event loop from its first line to its response with no          *)
(* suspension point.  Requests arrive at any time and wait as queued      *)
(* tasks; `running` is the task the loop is executing, and a step of a    *)
(* handler needs the loop (Exclusive).  Statements of the bandit are      *)
(* modelled one source line per step.                                     *)
(***************************************************************************)
EXTENDS Integers, Sequences, FiniteSets, TLC

\* ---------------------------------------------------------------- bounds
NumTasks == 2
\* rows in the feedback table at process start
MaxHistory == 3
\* requests served, in Spec and in SpecLoad
MaxRequests == 2
MaxLive == 1
\* pulls of one arm in the bandits SpecScore starts from
MaxPulls == 12
\* the loader's page size (1000 in the source), scaled down so that ledgers
\* of the model span several pages
page_size == 2

Tasks == 1..NumTasks
NoTask == 0
NoBandit == 0

\* document urls: those feedback may cite, and all that retrieval may return
ArmIds == {"a", "b"}
Urls == ArmIds \cup {"c"}
\* the sources lists a feedback request may carry
SourceLists == {<< >>, <<"b">>, <<"a", "b">>}

\* FeedbackType (feedback_models.py): the two labels a request may carry
FeedbackType == {"positive", "negative"}
\* what a client may send as label
RequestLabels == FeedbackType \cup {"bogus"}
\* rows the feedback table may hold at process start; a row is a dict: its
\* label may be any text, and a key may be missing from it
LedgerRows ==
    { [sources |-> <<"a">>, feedback |-> "positive"],
      [sources |-> <<"a", "b">>, feedback |-> "bogus"],
      [feedback |-> "positive"] }

\* what the vector store ranks for a query: (url, similarity) rows, best
\* first; similarities are in units of 1/Scale
Retrievals ==
    { << >>,
      << [url |-> "a", similarity |-> 9000], [url |-> "b", similarity |-> 8500] >>,
      << [url |-> "c", similarity |-> 9000], [url |-> "b", similarity |-> 9000],
         [url |-> "a", similarity |-> 7000] >> }
\* QueryRequest.top_k values a request may carry
TopKs == {1, 2}

RECURSIVE SeqsUpTo(_, _)
SeqsUpTo(S, n) ==
    IF n = 0 THEN {<< >>}
    ELSE LET shorter == SeqsUpTo(S, n - 1)
         IN shorter \cup {Append(s, x) : s \in {q \in shorter : Len(q) = n - 1}, x \in S}

\* ---------------------------------------------------------------- state
VARIABLES
    ledger,     \* the feedback table: the sequence of rows, in table order
    bandits,    \* UCB1Bandit objects, by the task that constructed them
    cache,      \* lru_cache of get_bandit: NoBandit or the cached object
    running,    \* the task the event loop is executing, or NoTask
    task,       \* per task: position and local variables
    response,   \* per task: the last HTTP response it produced
    nreq,       \* requests accepted so far
    issued,     \* history: per object and arm, the update calls made
    clean       \* history: no ledger read and no ledger insert has failed

vars == <<ledger, bandits, cache, running, task, response, nreq, issued, clean>>

\* UCB1Bandit.__init__
UCB1Bandit == [arms |-> << >>, total_pulls |-> 0]

NoIssue == [a \in Urls |-> [n |-> 0, p |-> 0]]

IdleTask ==
    [pc |-> "idle", entry |-> "", sources |-> << >>, feedback |-> "", self |-> NoBandit,
     top_k |-> 0, hits |-> << >>, data |-> << >>,
     cont |-> "", i |-> 0, reward |-> 0,
     arm_id |-> "", ureward |-> 0, ret |-> "", pre |-> UCB1Bandit,
     offset |-> 0, count |-> 0, rows |-> << >>, r |-> 0, lsources |-> << >>,
     j |-> 0, lreward |-> 0, readok |-> TRUE]

NoResponse == [status |-> 0]

Init ==
    /\ ledger \in SeqsUpTo(LedgerRows, MaxHistory)
    /\ bandits = [t \in Tasks |-> UCB1Bandit]
    /\ cache = NoBandit
    /\ running = NoTask
    /\ task = [t \in Tasks |-> IdleTask]
    /\ response = [t \in Tasks |-> NoResponse]
    /\ nreq = 0
    /\ issued = [t \in Tasks |-> NoIssue]
    /\ clean = TRUE

\* ------------------------------------------------------------ scheduling
\* A handler has no await between its first line and its response: the
\* event loop runs it to completion before it starts another.  The loop is
\* held by task t, or by nobody (t = NoTask).
Exclusive(t) == running = t

\* a request is served by the lowest-numbered free task
FreeSlot(t) ==
    /\ task[t].pc = "idle"
    /\ \A u \in Tasks : u < t => task[u].pc # "idle"

Set(t, upd) == task' = [task EXCEPT ![t] = upd]
At(t, pc) == Exclusive(t) /\ task[t].pc = pc

\* the handler of t returns its response and the loop is free again
Respond(t, resp) ==
    /\ response' = [response EXCEPT ![t] = resp]
    /\ task' = [task EXCEPT ![t] = IdleTask]
    /\ running' = NoTask

\* ------------------------------------------------- UCB1Bandit.update
Arms(b) == DOMAIN bandits[b].arms

Call_update(t, arm, rew, ret, also) ==
    /\ task' = [task EXCEPT ![t] =
            [also EXCEPT !.pc = "u21", !.arm_id = arm, !.ureward = rew,
                         !.ret = ret, !.pre = bandits[task[t].self]]]
    /\ issued' = [issued EXCEPT ![task[t].self][arm] =
            [n |-> @.n + 1, p |-> @.p + rew]]

\* the arm's entry is made anew on every call
update_21_always_create(t) ==
    /\ At(t, "u21")
    /\ Set(t, [task[t] EXCEPT !.pc = "u22"])
    /\ UNCHANGED <<ledger, clean, bandits, cache, running, response, nreq, issued>>

\* as update_21, with a suspension point after the membership test: the task
\* gives up the loop and is resumed later
update_21_awaits(t) ==
    /\ At(t, "u21")
    /\ Set(t, [task[t] EXCEPT !.pc = "queued", !.entry =
            IF task[t].arm_id \in Arms(task[t].self) THEN "u23" ELSE "u22"])
    /\ running' = NoTask
    /\ UNCHANGED <<ledger, clean, bandits, cache, response, nreq, issued>>

\* line 21: if arm_id not in self._arms
update_21(t) ==
    /\ At(t, "u21")
    /\ Set(t, [task[t] EXCEPT !.pc =
            IF task[t].arm_id \in Arms(task[t].self) THEN "u23" ELSE "u22"])
    /\ UNCHANGED <<ledger, clean, bandits, cache, running, response, nreq, issued>>

\* as update_22, with a suspension point after the arm is made: the task
\* gives up the loop before the arm's first pull is counted
update_22_awaits(t) ==
    /\ At(t, "u22")
    /\ bandits' = [bandits EXCEPT ![task[t].self].arms =
            (task[t].arm_id :> [pulls |-> 0, total_reward |-> 0]) @@ @]
    /\ Set(t, [task[t] EXCEPT !.pc = "queued", !.entry = "u23"])
    /\ running' = NoTask
    /\ UNCHANGED <<ledger, clean, cache, response, nreq, issued>>

\* line 22: self._arms[arm_id] = {"pulls": 0, "total_reward": 0.0}
update_22(t) ==
    /\ At(t, "u22")
    /\ bandits' = [bandits EXCEPT ![task[t].self].arms =
            (task[t].arm_id :> [pulls |-> 0, total_reward |-> 0]) @@ @]
    /\ Set(t, [task[t] EXCEPT !.pc = "u23"])
    /\ UNCHANGED <<ledger, clean, cache, running, response, nreq, issued>>

\* as update_23, with a suspension point after the increment: the task gives
\* up the loop between the counters
update_23_awaits(t) ==
    /\ At(t, "u23")
    /\ bandits' = [bandits EXCEPT
            ![task[t].self].arms[task[t].arm_id].pulls = @ + 1]
    /\ Set(t, [task[t] EXCEPT !.pc = "queued", !.entry = "u24"])
    /\ running' = NoTask
    /\ UNCHANGED <<ledger, clean, cache, response, nreq, issued>>

\* line 23: self._arms[arm_id]["pulls"] += 1
update_23(t) ==
    /\ At(t, "u23")
    /\ bandits' = [bandits EXCEPT
            ![task[t].self].arms[task[t].arm_id].pulls = @ + 1]
    /\ Set(t, [task[t] EXCEPT !.pc = "u24"])
    /\ UNCHANGED <<ledger, clean, cache, running, response, nreq, issued>>

\* the reward is stored, not added: the last update of an arm decides
update_24_overwrites(t) ==
    /\ At(t, "u24")
    /\ bandits' = [bandits EXCEPT
            ![task[t].self].arms[task[t].arm_id].total_reward = task[t].ureward]
    /\ Set(t, [task[t] EXCEPT !.pc = "u25"])
    /\ UNCHANGED <<ledger, clean, cache, running, response, nreq, issued>>

\* line 24: self._arms[arm_id]["total_reward"] += reward
update_24(t) ==
    /\ At(t, "u24")
    /\ bandits' = [bandits EXCEPT
            ![task[t].self].arms[task[t].arm_id].total_reward = @ + task[t].ureward]
    /\ Set(t, [task[t] EXCEPT !.pc = "u25"])
    /\ UNCHANGED <<ledger, clean, cache, running, response, nreq, issued>>

update_25_adds_reward(t) ==
    /\ At(t, "u25")
    /\ bandits' = [bandits EXCEPT ![task[t].self].total_pulls = @ + task[t].ureward]
    /\ Set(t, [task[t] EXCEPT !.pc = task[t].ret, !.arm_id = "", !.ureward = 0,
                  !.ret = "", !.pre = UCB1Bandit])
    /\ UNCHANGED <<ledger, clean, cache, running, response, nreq, issued>>

\* line 25: self._total_pulls += 1, and the return to the caller
update_25(t) ==
    /\ At(t, "u25")
    /\ bandits' = [bandits EXCEPT ![task[t].self].total_pulls = @ + 1]
    /\ Set(t, [task[t] EXCEPT !.pc = task[t].ret, !.arm_id = "", !.ureward = 0,
                  !.ret = "", !.pre = UCB1Bandit])
    /\ UNCHANGED <<ledger, clean, cache, running, response, nreq, issued>>

\* ------------------------------------------------ UCB1Bandit.get_score
\* Scores are fixed-point numbers in units of 1/Scale, truncated.
Scale == 10000

\* math.log(n) in units of 1/Scale, for n = 1 .. 40
LnTable ==
    << 0, 6931, 10986, 13862, 16094, 17917, 19459, 20794, 21972, 23025,
       23978, 24849, 25649, 26390, 27080, 27725, 28332, 28903, 29444, 29957,
       30445, 30910, 31354, 31780, 32188, 32580, 32958, 33322, 33672, 34011,
       34339, 34657, 34965, 35263, 35553, 35835, 36109, 36375, 36635, 36888 >>
Log(n) == LnTable[n]

\* math.sqrt on integers: the largest r with r * r <= x
RECURSIVE SqrtBetween(_, _, _)
SqrtBetween(x, lo, hi) ==
    IF lo = hi THEN lo
    ELSE LET mid == (lo + hi + 1) \div 2
         IN IF mid * mid <= x THEN SqrtBetween(x, mid, hi)
            ELSE SqrtBetween(x, lo, mid - 1)
Sqrt(x) == SqrtBetween(x, 0, 46340)

Exploration_no_factor(total_pulls, pulls) ==
    Sqrt((Log(total_pulls) * Scale) \div pulls)

Exploration_global(total_pulls, pulls) ==
    Sqrt(2 * Log(total_pulls) * Scale)

\* line 43: math.sqrt(2 * math.log(self._total_pulls) / arm["pulls"])
Exploration(total_pulls, pulls) ==
    Sqrt((2 * Log(total_pulls) * Scale) \div pulls)

\* an arm without observations scores an optimistic 1.0
get_score_optimistic(b, arm_id) ==
    IF arm_id \notin DOMAIN b.arms \/ b.arms[arm_id].pulls = 0
    THEN Scale
    ELSE LET arm == b.arms[arm_id]
             mean_reward == (arm.total_reward * Scale) \div arm.pulls
         IN IF b.total_pulls <= 1
            THEN mean_reward
            ELSE mean_reward + Exploration(b.total_pulls, arm.pulls)

\* the degenerate case answers 0.0 instead of the mean
get_score_degenerate_zero(b, arm_id) ==
    IF arm_id \notin DOMAIN b.arms \/ b.arms[arm_id].pulls = 0
    THEN 0
    ELSE LET arm == b.arms[arm_id]
             mean_reward == (arm.total_reward * Scale) \div arm.pulls
         IN IF b.total_pulls <= 1
            THEN 0
            ELSE mean_reward + Exploration(b.total_pulls, arm.pulls)

\* the exploration term alone
get_score_exploration_only(b, arm_id) ==
    IF arm_id \notin DOMAIN b.arms \/ b.arms[arm_id].pulls = 0
    THEN 0
    ELSE LET arm == b.arms[arm_id]
             mean_reward == (arm.total_reward * Scale) \div arm.pulls
         IN IF b.total_pulls <= 1
            THEN mean_reward
            ELSE Exploration(b.total_pulls, arm.pulls)

\* a pull without reward counts against the arm: the mean is taken over
\* rewards of +1 and -1
get_score_penalised(b, arm_id) ==
    IF arm_id \notin DOMAIN b.arms \/ b.arms[arm_id].pulls = 0
    THEN 0
    ELSE LET arm == b.arms[arm_id]
             mean_reward == (arm.total_reward * Scale) \div arm.pulls
                                - ((arm.pulls - arm.total_reward) * Scale) \div arm.pulls
         IN IF b.total_pulls <= 1
            THEN mean_reward
            ELSE mean_reward + Exploration(b.total_pulls, arm.pulls)

\* lines 34-44, on the bandit value b
get_score(b, arm_id) ==
    IF arm_id \notin DOMAIN b.arms \/ b.arms[arm_id].pulls = 0
    THEN 0
    ELSE LET arm == b.arms[arm_id]
             mean_reward == (arm.total_reward * Scale) \div arm.pulls
         IN IF b.total_pulls <= 1
            THEN mean_reward
            ELSE mean_reward + Exploration(b.total_pulls, arm.pulls)

\* --------------------------------------- UCB1Bandit.load_from_supabase
Min(x, y) == IF x <= y THEN x ELSE y

\* None, which a null column reads as and dict.get gives for a missing key:
\* a value that is no list of urls
None == <<"None">>

\* dict.get(key, default)
Get(row, key, default) == IF key \in DOMAIN row THEN row[key] ELSE default

\* x or default: None and the empty list are falsy
Or(x, default) == IF x = None \/ x = << >> THEN default ELSE x

\* .range(offset, offset + page_size): one row too many
ReadPage_inclusive(offset) ==
    SubSeq(ledger, offset + 1, Min(offset + page_size + 1, Len(ledger)))

\* .range(offset, offset + page_size - 1): the rows at those positions
ReadPage(offset) ==
    SubSeq(ledger, offset + 1, Min(offset + page_size, Len(ledger)))

\* as load_53 for a read that succeeds, awaited: the task gives up the event
\* loop while the page is fetched
load_53_awaits(t) ==
    /\ At(t, "l53")
    /\ LET rows == ReadPage(task[t].offset)
       IN Set(t, [task[t] EXCEPT !.rows = rows, !.r = 1, !.pc = "queued",
                     !.entry = IF rows = << >> THEN "gb26" ELSE "l62"])
    /\ running' = NoTask
    /\ UNCHANGED <<ledger, clean, bandits, cache, response, nreq, issued>>

\* lines 53-61: read one page; an empty page ends the loop; a failing read
\* raises into the except clause of lines 73-75
load_53(t) ==
    /\ At(t, "l53")
    /\ \/ LET rows == ReadPage(task[t].offset)
          IN /\ Set(t, [task[t] EXCEPT !.rows = rows, !.r = 1,
                           !.pc = IF rows = << >> THEN "gb26" ELSE "l62"])
             /\ UNCHANGED clean
       \/ /\ Set(t, [task[t] EXCEPT !.readok = FALSE, !.pc = "gb26"])
          /\ clean' = FALSE
    /\ UNCHANGED <<ledger, bandits, cache, running, response, nreq, issued>>

\* the loop is left after the first page, full or not
load_62_one_page(t) ==
    /\ At(t, "l62")
    /\ LET l == task[t]
       IN IF l.r <= Len(l.rows)
          THEN Set(t, [l EXCEPT
                    !.lsources = Or(Get(l.rows[l.r], "sources", None), << >>),
                    !.lreward = IF Get(l.rows[l.r], "feedback", "") = "positive"
                                THEN 1 ELSE 0,
                    !.j = 1, !.pc = "l66"])
          ELSE Set(t, [l EXCEPT !.offset = l.offset + page_size, !.pc = "gb26"])
    /\ UNCHANGED <<ledger, clean, bandits, cache, running, response, nreq, issued>>

\* `for url in row.get("sources", [])`: a null sources column is iterated
\* as it is, and the TypeError ends the load in the except clause
load_62_iterates_none(t) ==
    /\ At(t, "l62")
    /\ LET l == task[t]
       IN IF l.r <= Len(l.rows)
          THEN IF Get(l.rows[l.r], "sources", << >>) = None
               THEN Set(t, [l EXCEPT !.readok = FALSE, !.pc = "gb26"])
               ELSE Set(t, [l EXCEPT
                         !.lsources = Get(l.rows[l.r], "sources", << >>),
                         !.lreward = IF Get(l.rows[l.r], "feedback", "") = "positive"
                                     THEN 1 ELSE 0,
                         !.j = 1, !.pc = "l66"])
          ELSE Set(t, [l EXCEPT
                    !.offset = l.offset + page_size,
                    !.pc = IF Len(l.rows) < page_size THEN "gb26" ELSE "l53"])
    /\ UNCHANGED <<ledger, clean, bandits, cache, running, response, nreq, issued>>

\* lines 62-65 and 69-71: the next row of the page, or the end of the page
load_62(t) ==
    /\ At(t, "l62")
    /\ LET l == task[t]
       IN IF l.r <= Len(l.rows)
          THEN Set(t, [l EXCEPT
                    !.lsources = Or(Get(l.rows[l.r], "sources", None), << >>),
                    !.lreward = IF Get(l.rows[l.r], "feedback", "") = "positive"
                                THEN 1 ELSE 0,
                    !.j = 1, !.pc = "l66"])
          ELSE Set(t, [l EXCEPT
                    !.offset = l.offset + page_size,
                    !.pc = IF Len(l.rows) < page_size THEN "gb26" ELSE "l53"])
    /\ UNCHANGED <<ledger, clean, bandits, cache, running, response, nreq, issued>>

\* lines 66-68: self.update(url, reward) for each url, then count += 1
load_66(t) ==
    /\ At(t, "l66")
    /\ LET l == task[t]
       IN IF l.j <= Len(l.lsources)
          THEN Call_update(t, l.lsources[l.j], l.lreward, "l66",
                           [l EXCEPT !.j = l.j + 1])
          ELSE /\ Set(t, [l EXCEPT !.count = l.count + 1, !.r = l.r + 1, !.pc = "l62"])
               /\ UNCHANGED issued
    /\ UNCHANGED <<ledger, clean, bandits, cache, running, response, nreq>>

\* ------------------------------------------------------------ get_bandit
\* without lru_cache: every call makes a new object and loads it
get_bandit_uncached(t) ==
    /\ At(t, "gb")
    /\ bandits' = [bandits EXCEPT ![t] = UCB1Bandit]
    /\ Set(t, [task[t] EXCEPT !.self = t, !.offset = 0, !.count = 0,
                  !.readok = TRUE, !.pc = "l53"])
    /\ UNCHANGED <<ledger, clean, cache, running, response, nreq, issued>>

\* lines 17-25: the lru_cache hit, or a new object and the start of its load
get_bandit(t) ==
    /\ At(t, "gb")
    /\ IF cache # NoBandit
       THEN /\ Set(t, [task[t] EXCEPT !.self = cache, !.pc = task[t].cont])
            /\ UNCHANGED bandits
       ELSE /\ bandits' = [bandits EXCEPT ![t] = UCB1Bandit]
            /\ Set(t, [task[t] EXCEPT !.self = t, !.offset = 0, !.count = 0,
                          !.readok = TRUE, !.pc = "l53"])
    /\ UNCHANGED <<ledger, clean, cache, running, response, nreq, issued>>

\* line 26: return bandit; lru_cache stores the result
get_bandit_26(t) ==
    /\ At(t, "gb26")
    /\ cache' = task[t].self
    /\ Set(t, [task[t] EXCEPT !.pc = task[t].cont, !.offset = 0, !.count = 0,
                  !.rows = << >>, !.r = 0, !.lsources = << >>, !.j = 0,
                  !.lreward = 0, !.readok = TRUE])
    /\ UNCHANGED <<ledger, clean, bandits, running, response, nreq, issued>>

\* ------------------------------------------------------- requests
\* a request arrives at any time and waits for the event loop
request(t, max) ==
    /\ FreeSlot(t)
    /\ nreq < max
    /\ nreq' = nreq + 1
    /\ Set(t, [IdleTask EXCEPT !.entry = "start", !.pc = "queued"])
    /\ response' = [response EXCEPT ![t] = NoResponse]
    /\ UNCHANGED <<ledger, clean, bandits, cache, running, issued>>

\* the event loop, when it is free, runs a waiting task
dispatch(t) ==
    /\ Exclusive(NoTask)
    /\ task[t].pc = "queued"
    /\ running' = t
    /\ Set(t, [task[t] EXCEPT !.pc = task[t].entry, !.entry = ""])
    /\ UNCHANGED <<ledger, clean, bandits, cache, response, nreq, issued>>

\* ------------------------------------------------ POST /feedback
\* the label is a plain string: store_feedback is entered with any label
feedback_any_label(t) ==
    /\ At(t, "start")
    /\ \E srcs \in SourceLists, label \in RequestLabels :
          Set(t, [task[t] EXCEPT !.sources = srcs, !.feedback = label,
                     !.cont = "sf52", !.pc = "gb"])
    /\ UNCHANGED <<ledger, clean, bandits, cache, running, response, nreq, issued>>

\* FeedbackRequest validation: a label outside FeedbackType is answered 422
\* before the handler body runs; otherwise store_feedback is entered
feedback(t) ==
    /\ At(t, "start")
    /\ \E srcs \in SourceLists, label \in RequestLabels :
          IF label \in FeedbackType
          THEN /\ Set(t, [task[t] EXCEPT !.sources = srcs, !.feedback = label,
                             !.cont = "sf52", !.pc = "gb"])
               /\ UNCHANGED <<response, running>>
          ELSE Respond(t, [status |-> 422])
    /\ UNCHANGED <<ledger, clean, bandits, cache, nreq, issued>>

\* negative feedback counted as -1
store_feedback_52_signed(t) ==
    /\ At(t, "sf52")
    /\ Set(t, [task[t] EXCEPT
            !.reward = IF task[t].feedback = "positive" THEN 1 ELSE -1,
            !.i = 1, !.pc = "sf56"])
    /\ UNCHANGED <<ledger, clean, bandits, cache, running, response, nreq, issued>>

\* the loop over the sources is skipped: the insert comes with no update made
store_feedback_52_no_update(t) ==
    /\ At(t, "sf52")
    /\ Set(t, [task[t] EXCEPT
            !.reward = IF task[t].feedback = "positive" THEN 1 ELSE 0,
            !.i = Len(task[t].sources) + 1, !.pc = "sf56"])
    /\ UNCHANGED <<ledger, clean, bandits, cache, running, response, nreq, issued>>

\* lines 52-53: feedback_id, reward
store_feedback_52(t) ==
    /\ At(t, "sf52")
    /\ Set(t, [task[t] EXCEPT
            !.reward = IF task[t].feedback = "positive" THEN 1 ELSE 0,
            !.i = 1, !.pc = "sf56"])
    /\ UNCHANGED <<ledger, clean, bandits, cache, running, response, nreq, issued>>

\* lines 56-57: bandit.update(url, reward) for each url
store_feedback_56(t) ==
    /\ At(t, "sf56")
    /\ LET l == task[t]
       IN IF l.i <= Len(l.sources)
          THEN Call_update(t, l.sources[l.i], l.reward, "sf56",
                           [l EXCEPT !.i = l.i + 1])
          ELSE /\ Set(t, [l EXCEPT !.pc = "sf59"])
               /\ UNCHANGED issued
    /\ UNCHANGED <<ledger, clean, bandits, cache, running, response, nreq>>

\* the insert is dropped without an error: success is reported, no row written
store_feedback_59_unwritten(t) ==
    /\ At(t, "sf59")
    /\ Respond(t, [status |-> 200])
    /\ UNCHANGED <<ledger, clean, bandits, cache, nreq, issued>>

\* as store_feedback_59, followed by bandit.load_from_json (bandit.py 84-90)
\* on a file without the keys "arms" and "total_pulls"
store_feedback_59_load_from_json(t) ==
    /\ At(t, "sf59")
    /\ \/ /\ ledger' = Append(ledger,
                [sources |-> task[t].sources, feedback |-> task[t].feedback])
          /\ bandits' = [bandits EXCEPT ![task[t].self] = UCB1Bandit]
          /\ Respond(t, [status |-> 200])
          /\ UNCHANGED clean
       \/ /\ UNCHANGED <<ledger, bandits>>
          /\ clean' = FALSE
          /\ Respond(t, [status |-> 500])
    /\ UNCHANGED <<cache, nreq, issued>>

\* a failing insert is caught and the success response is returned all the same
store_feedback_59_swallows(t) ==
    /\ At(t, "sf59")
    /\ \/ /\ ledger' = Append(ledger,
                [sources |-> task[t].sources, feedback |-> task[t].feedback])
          /\ UNCHANGED clean
       \/ /\ UNCHANGED ledger
          /\ clean' = FALSE
    /\ Respond(t, [status |-> 200])
    /\ UNCHANGED <<bandits, cache, nreq, issued>>

\* lines 59-69 and feedback.py 20-24: the insert, then the success response;
\* a failing insert raises through store_feedback and the handler: HTTP 500
store_feedback_59(t) ==
    /\ At(t, "sf59")
    /\ \/ /\ ledger' = Append(ledger,
                [sources |-> task[t].sources, feedback |-> task[t].feedback])
          /\ Respond(t, [status |-> 200])
          /\ UNCHANGED clean
       \/ /\ UNCHANGED ledger
          /\ clean' = FALSE
          /\ Respond(t, [status |-> 500])
    /\ UNCHANGED <<bandits, cache, nreq, issued>>

\* ------------------------------------------------------ POST /ask
\* a descending sort that puts a later element before its equals
RECURSIVE InsertDesc_unstable(_, _)
InsertDesc_unstable(x, sorted) ==
    IF sorted = << >> THEN <<x>>
    ELSE IF Head(sorted).final_score > x.final_score
         THEN <<Head(sorted)>> \o InsertDesc_unstable(x, Tail(sorted))
         ELSE <<x>> \o sorted

\* list.sort(key=final_score, reverse=True): stable, descending
RECURSIVE InsertDesc(_, _)
InsertDesc(x, sorted) ==
    IF sorted = << >> THEN <<x>>
    ELSE IF Head(sorted).final_score >= x.final_score
         THEN <<Head(sorted)>> \o InsertDesc(x, Tail(sorted))
         ELSE <<x>> \o sorted

RECURSIVE SortDesc(_)
SortDesc(seq) ==
    IF seq = << >> THEN << >>
    ELSE InsertDesc(seq[Len(seq)], SortDesc(SubSeq(seq, 1, Len(seq) - 1)))

\* feedback_rl.py line 75: {url: bandit.get_score(url) for url in urls}
get_feedback_scores(b, urls) == [u \in urls |-> get_score(b, u)]

\* rag_pipeline.py lines 71-85: score, sort and cut to top_k
Rerank(b, data, top_k) ==
    LET ucb_scores == get_feedback_scores(b, {data[n].url : n \in DOMAIN data})
        ranked == [n \in DOMAIN data |->
                    [url |-> data[n].url,
                     vector_score |-> data[n].similarity,
                     ucb1_score |-> ucb_scores[data[n].url],
                     final_score |-> data[n].similarity + ucb_scores[data[n].url]]]
        sorted == SortDesc(ranked)
    IN SubSeq(sorted, 1, Min(top_k, Len(sorted)))

\* QueryRequest validation passed; run_rag_pipeline is entered.  `hits` is
\* what the vector store ranks for the request's query.
ask(t) ==
    /\ At(t, "start")
    /\ \E k \in TopKs, hits \in Retrievals :
          Set(t, [task[t] EXCEPT !.top_k = k, !.hits = hits, !.pc = "rag52"])
    /\ UNCHANGED <<ledger, clean, bandits, cache, running, response, nreq, issued>>

\* a failing RPC is caught and the pipeline goes on with no candidates
rag_52_falls_back(t) ==
    /\ At(t, "rag52")
    /\ \/ Set(t, [task[t] EXCEPT
               !.data = SubSeq(task[t].hits, 1,
                               Min(task[t].top_k * 2, Len(task[t].hits))),
               !.cont = "rag71", !.pc = "gb"])
       \/ Set(t, [task[t] EXCEPT !.data = << >>, !.cont = "rag71", !.pc = "gb"])
    /\ UNCHANGED <<ledger, clean, bandits, cache, running, response, nreq, issued>>

\* match_count is top_k: no spare candidates are fetched
rag_52_requests_k(t) ==
    /\ At(t, "rag52")
    /\ \/ /\ Set(t, [task[t] EXCEPT
                  !.data = SubSeq(task[t].hits, 1,
                                  Min(task[t].top_k, Len(task[t].hits))),
                  !.cont = "rag71", !.pc = "gb"])
          /\ UNCHANGED <<response, running>>
       \/ Respond(t, [status |-> 500])
    /\ UNCHANGED <<ledger, clean, bandits, cache, nreq, issued>>

\* rag_pipeline.py lines 52-59: the match_documents RPC for 2 * top_k rows;
\* a failing call raises through the pipeline and the handler: HTTP 500
rag_52(t) ==
    /\ At(t, "rag52")
    /\ \/ /\ Set(t, [task[t] EXCEPT
                  !.data = SubSeq(task[t].hits, 1,
                                  Min(task[t].top_k * 2, Len(task[t].hits))),
                  !.cont = "rag71", !.pc = "gb"])
          /\ UNCHANGED <<response, running>>
       \/ Respond(t, [status |-> 500])
    /\ UNCHANGED <<ledger, clean, bandits, cache, nreq, issued>>

\* as rag_71, with the arm table behaving like a defaultdict: looking up the
\* score of a candidate without an arm makes one with zeros
rag_71_creates_arms(t) ==
    /\ At(t, "rag71")
    /\ \/ Respond(t, [status |-> 200,
                      docs |-> Rerank(bandits[task[t].self], task[t].data,
                                      task[t].top_k)])
       \/ Respond(t, [status |-> 500])
    /\ bandits' = [bandits EXCEPT ![task[t].self].arms =
            LET asked == {task[t].data[n].url : n \in DOMAIN task[t].data}
            IN [u \in DOMAIN @ \cup asked |->
                    IF u \in DOMAIN @ THEN @[u]
                    ELSE [pulls |-> 0, total_reward |-> 0]]]
    /\ UNCHANGED <<ledger, clean, cache, nreq, issued>>

\* rag_pipeline.py lines 71-85 and 112-127, ask.py lines 12-18: the re-ranked
\* documents go to the LLM chain and the answer is returned; a failing chain
\* raises through the handler: HTTP 500
rag_71(t) ==
    /\ At(t, "rag71")
    /\ \/ Respond(t, [status |-> 200,
                      docs |-> Rerank(bandits[task[t].self], task[t].data,
                                      task[t].top_k)])
       \/ Respond(t, [status |-> 500])
    /\ UNCHANGED <<ledger, clean, bandits, cache, nreq, issued>>

\* ---------------------------------------------------------------- system
Next ==
    \E t \in Tasks :
        \/ request(t, MaxRequests)
        \/ dispatch(t)
        \/ feedback(t)
        \/ ask(t)
        \/ rag_52(t)
        \/ rag_71(t)
        \/ get_bandit(t)
        \/ load_53(t)
        \/ load_62(t)
        \/ load_66(t)
        \/ get_bandit_26(t)
        \/ store_feedback_52(t)
        \/ store_feedback_56(t)
        \/ store_feedback_59(t)
        \/ update_21(t)
        \/ update_22(t)
        \/ update_23(t)
        \/ update_24(t)
        \/ update_25(t)

Spec == Init /\ [][Next]_vars

\* the warm start and the first request after it
NextLoad ==
    \E t \in Tasks :
        \/ request(t, MaxLive)
        \/ dispatch(t)
        \/ feedback(t)
        \/ ask(t)
        \/ rag_52(t)
        \/ rag_71(t)
        \/ get_bandit(t)
        \/ load_53(t)
        \/ load_62(t)
        \/ load_66(t)
        \/ get_bandit_26(t)
        \/ store_feedback_52(t)
        \/ store_feedback_56(t)
        \/ store_feedback_59(t)
        \/ update_21(t)
        \/ update_22(t)
        \/ update_23(t)
        \/ update_24(t)
        \/ update_25(t)

SpecLoad == Init /\ [][NextLoad]_vars

\* lines 46-75 run as one synchronous call: once entered, the loader
\* executes its next statement (a read returns or raises)
load_from_supabase ==
    \E t \in Tasks :
        \/ load_53(t)
        \/ load_62(t)
        \/ load_66(t)
        \/ update_21(t)
        \/ update_22(t)
        \/ update_23(t)
        \/ update_24(t)
        \/ update_25(t)

SpecLoadFair == SpecLoad /\ WF_vars(load_from_supabase)

\* get_score on any bandit that updates can build: every arm absent or with
\* 1 .. MaxPulls pulls and rewards within them, total_pulls their sum; the
\* bandit is the cached one and one /ask request is waiting
ArmStats == {[pulls |-> n, total_reward |-> r] : n \in 1..MaxPulls, r \in 0..MaxPulls}
RECURSIVE Sum(_, _)
Sum(f, S) ==
    IF S = {} THEN 0
    ELSE LET x == CHOOSE y \in S : TRUE IN f[x] + Sum(f, S \ {x})

BuiltArms ==
    UNION {[D -> {st \in ArmStats : st.total_reward <= st.pulls}] : D \in SUBSET ArmIds}

InitScore ==
    /\ ledger = << >>
    /\ \E arms \in BuiltArms :
          /\ bandits = [t \in Tasks |->
                IF t = 1
                THEN [arms |-> arms,
                      total_pulls |->
                          Sum([a \in DOMAIN arms |-> arms[a].pulls], DOMAIN arms)]
                ELSE UCB1Bandit]
          /\ issued = [t \in Tasks |->
                IF t = 1
                THEN [u \in Urls |->
                        IF u \in DOMAIN arms
                        THEN [n |-> arms[u].pulls, p |-> arms[u].total_reward]
                        ELSE [n |-> 0, p |-> 0]]
                ELSE NoIssue]
    /\ cache = 1
    /\ running = NoTask
    /\ task = [t \in Tasks |->
            IF t = 1 THEN [IdleTask EXCEPT !.entry = "start", !.pc = "queued"]
            ELSE IdleTask]
    /\ response = [t \in Tasks |-> NoResponse]
    /\ nreq = 1
    /\ clean = (bandits[1] = UCB1Bandit)

NextScore ==
    \E t \in Tasks :
        \/ dispatch(t)
        \/ ask(t)
        \/ rag_52(t)
        \/ get_bandit(t)
        \/ rag_71(t)

SpecScore == InitScore /\ [][NextScore]_vars

\* ---------------------------------------------- the replay of any rows
\* rows of any content the two selected columns may have: the label any
\* text or missing, the sources a list, empty, null or missing
ReplayRows ==
    LedgerRows \cup
        { [sources |-> None, feedback |-> "negative"],
          [sources |-> << >>, feedback |-> "positive"],
          [sources |-> <<"b">>] }

\* the process has started on a feedback table of such rows, and the first
\* request, a query, waits for the event loop
InitReplay ==
    /\ ledger \in SeqsUpTo(ReplayRows, MaxHistory)
    /\ bandits = [t \in Tasks |-> UCB1Bandit]
    /\ cache = NoBandit
    /\ running = NoTask
    /\ task = [t \in Tasks |->
            IF t = 1 THEN [IdleTask EXCEPT !.entry = "start", !.pc = "queued"]
            ELSE IdleTask]
    /\ response = [t \in Tasks |-> NoResponse]
    /\ nreq = 1
    /\ issued = [t \in Tasks |-> NoIssue]
    /\ clean = TRUE

NextReplay ==
    \E t \in Tasks :
        \/ dispatch(t)
        \/ ask(t)
        \/ rag_52(t)
        \/ get_bandit(t)
        \/ load_53(t)
        \/ load_62(t)
        \/ load_66(t)
        \/ get_bandit_26(t)
        \/ update_21(t)
        \/ update_22(t)
        \/ update_23(t)
        \/ update_24(t)
        \/ update_25(t)
        \/ rag_71(t)

SpecReplay == InitReplay /\ [][NextReplay]_vars

\* ================================================================ claims
\* some task is between the call of update on object b and its return
InUpdate(b) == \E t \in Tasks : task[t].self = b /\ task[t].ret # ""
AllIdle == running = NoTask /\ \A t \in Tasks : task[t].pc = "idle"

PullsOf(b, a) == IF a \in DOMAIN b.arms THEN b.arms[a].pulls ELSE 0
RewardOf(b, a) == IF a \in DOMAIN b.arms THEN b.arms[a].total_reward ELSE 0
SumPulls(b) == Sum([a \in DOMAIN b.arms |-> b.arms[a].pulls], DOMAIN b.arms)

\* C1: whenever no update call is in progress on a bandit (so after every
\* single update, of the replay and of feedback ingestion alike), its
\* total_pulls equals the sum of the pulls of its arms.
C1_TotalPullsIsSum ==
    \A b \in Tasks :
        ~InUpdate(b) => bandits[b].total_pulls = SumPulls(bandits[b])

\* a feedback request has just returned from its first update, on a bandit
\* the replay filled with both arms
C1_Witness ==
    \E t \in Tasks :
        /\ task[t].pc = "sf56" /\ task[t].i = 2
        /\ DOMAIN bandits[task[t].self].arms = ArmIds
        /\ bandits[task[t].self].total_pulls >= 4
        /\ Len(ledger) >= 2

\* C2: no update is lost: whenever no update call is in progress on a
\* bandit, every arm's pulls is the number of update calls made for it, its
\* total_reward the number of those with reward 1, and total_pulls the
\* number of all update calls, however the requests that made them overlap.
C2_NoLostUpdate ==
    \A b \in Tasks :
        ~InUpdate(b) =>
            /\ \A a \in Urls :
                  /\ PullsOf(bandits[b], a) = issued[b][a].n
                  /\ RewardOf(bandits[b], a) = issued[b][a].p
            /\ bandits[b].total_pulls = Sum([a \in Urls |-> issued[b][a].n], Urls)

\* two feedback requests citing "b", one positive and one negative, were in
\* flight together (both task slots were taken) and both have been answered
C2_Witness ==
    /\ AllIdle
    /\ \A t \in {1, 2} : response[t] = [status |-> 200]
    /\ Len(ledger) >= 2
    /\ LET x == ledger[Len(ledger)]
           y == ledger[Len(ledger) - 1]
       IN /\ {x.feedback, y.feedback} = FeedbackType
          /\ x.sources = <<"b">> /\ y.sources = <<"b">>
    /\ cache # NoBandit
    /\ PullsOf(bandits[cache], "b") >= 3

\* the document with url u in a 200 response to /ask, if any
AskDocs(t) ==
    IF "docs" \in DOMAIN response[t]
    THEN {response[t].docs[n] : n \in DOMAIN response[t].docs} ELSE {}

\* C3: an arm for which no update call was ever made on a bandit scores
\* exactly 0 on it, whatever the other arms have received (and when
\* total_pulls is 0).
C3_UnobservedScoreZero ==
    \A b \in Tasks : \A u \in Urls :
        issued[b][u].n = 0 => get_score(bandits[b], u) = 0

\* an /ask response ranks "b", never updated, with bandit score 0 beside
\* "a", updated at least twice, with a positive bandit score
C3_Witness ==
    \E t \in Tasks :
        /\ cache # NoBandit
        /\ issued[cache]["b"].n = 0
        /\ issued[cache]["a"].n >= 2
        /\ \E d, e \in AskDocs(t) :
              /\ d.url = "b" /\ d.ucb1_score = 0
              /\ e.url = "a" /\ e.ucb1_score > 0

\* C4: with total_pulls <= 1, the score of an arm with pulls >= 1 is its
\* mean reward total_reward / pulls and nothing else; when the only update
\* ever made on a bandit is one with reward 1 for that arm, its score is 1.0.
C4_MeanOnlyUpToOnePull ==
    \A b \in Tasks : \A a \in DOMAIN bandits[b].arms :
        LET arm == bandits[b].arms[a]
        IN (bandits[b].total_pulls <= 1 /\ arm.pulls >= 1) =>
              /\ get_score(bandits[b], a) * arm.pulls <= arm.total_reward * Scale
              /\ (get_score(bandits[b], a) + 1) * arm.pulls > arm.total_reward * Scale
              /\ (/\ ~InUpdate(b)
                  /\ issued[b] = [NoIssue EXCEPT ![a] = [n |-> 1, p |-> 1]])
                    => get_score(bandits[b], a) = Scale

\* one positive feedback for "a" is the only event there has been, and an
\* /ask response reports bandit score 1.0 for "a"
C4_Witness ==
    \E t \in Tasks :
        /\ ledger = << [sources |-> <<"a">>, feedback |-> "positive"] >>
        /\ cache # NoBandit
        /\ bandits[cache].total_pulls = 1
        /\ issued[cache] = [NoIssue EXCEPT !["a"] = [n |-> 1, p |-> 1]]
        /\ \E d \in AskDocs(t) : d.url = "a" /\ d.ucb1_score = Scale

\* C5: with total_pulls > 1, the score of an arm with pulls >= 1 is
\* total_reward / pulls + sqrt(2 * ln(total_pulls) / pulls), from that
\* arm's pulls and the bandit's total_pulls of the same state (each term
\* truncated to a multiple of 1/Scale).
C5_UcbFormula ==
    \A b \in Tasks : \A a \in DOMAIN bandits[b].arms :
        LET arm == bandits[b].arms[a]
            N == bandits[b].total_pulls
            mean == (arm.total_reward * Scale) \div arm.pulls
            e == get_score(bandits[b], a) - mean
            \* (Scale * sqrt(2 ln N / pulls))^2
            x == (2 * LnTable[N] * Scale) \div arm.pulls
        IN (N > 1 /\ arm.pulls >= 1) => (e >= 0 /\ e * e <= x /\ x < (e + 1) * (e + 1))

\* one update with reward 1 for "a" and one with reward 0 for "b": an /ask
\* response reports 1 + sqrt(2 ln 2) = 2.1773 for "a"
C5_Witness ==
    \E t \in Tasks :
        /\ cache # NoBandit
        /\ bandits[cache].total_pulls = 2
        /\ issued[cache]["a"] = [n |-> 1, p |-> 1]
        /\ issued[cache]["b"] = [n |-> 1, p |-> 0]
        /\ \E d \in AskDocs(t) : d.url = "a" /\ d.ucb1_score = 21773

\* C6: of two arms of a bandit with the same pulls >= 1, the one with the
\* strictly higher total_reward has the strictly higher score when
\* total_pulls > 1.
C6_HigherRewardHigherScore ==
    \A b \in Tasks : \A x, y \in DOMAIN bandits[b].arms :
        LET A == bandits[b].arms[x]
            B == bandits[b].arms[y]
        IN (/\ A.pulls = B.pulls /\ A.pulls >= 1
            /\ A.total_reward > B.total_reward
            /\ bandits[b].total_pulls > 1)
              => get_score(bandits[b], x) > get_score(bandits[b], y)

\* both arms have two pulls, "a" the higher total_reward, and an /ask
\* response carries their scores
C6_Witness ==
    \E t \in Tasks :
        /\ cache # NoBandit /\ ~InUpdate(cache)
        /\ DOMAIN bandits[cache].arms = ArmIds
        /\ bandits[cache].arms["a"].pulls = 2
        /\ bandits[cache].arms["b"].pulls = 2
        /\ bandits[cache].arms["a"].total_reward > bandits[cache].arms["b"].total_reward
        /\ \E d, e \in AskDocs(t) :
              d.url = "a" /\ e.url = "b" /\ d.ucb1_score > e.ucb1_score

\* C7: of two arms of a bandit with the same mean reward (both pulls >= 1),
\* the one with strictly fewer pulls has the strictly higher score when
\* total_pulls > 1.
C7_FewerPullsHigherScore ==
    \A b \in Tasks : \A x, y \in DOMAIN bandits[b].arms :
        LET A == bandits[b].arms[x]
            B == bandits[b].arms[y]
        IN (/\ A.pulls >= 1 /\ A.pulls < B.pulls
            /\ A.total_reward * B.pulls = B.total_reward * A.pulls
            /\ bandits[b].total_pulls > 1)
              => get_score(bandits[b], x) > get_score(bandits[b], y)

\* "a" and "b" both have mean reward 1/2, "a" four pulls and "b" eight, and
\* an /ask response carries the higher score of "a"
C7_Witness ==
    \E t \in Tasks :
        /\ cache # NoBandit /\ ~InUpdate(cache)
        /\ DOMAIN bandits[cache].arms = ArmIds
        /\ bandits[cache].arms["a"] = [pulls |-> 4, total_reward |-> 2]
        /\ bandits[cache].arms["b"] = [pulls |-> 8, total_reward |-> 4]
        /\ bandits[cache].total_pulls = 12
        /\ \E d, e \in AskDocs(t) :
              d.url = "a" /\ e.url = "b" /\ d.ucb1_score > e.ucb1_score

\* Update(a, r) as one step on a bandit value: the arm made with zeros if
\* absent, its pulls + 1, its total_reward + r, total_pulls + 1
Applied(b, a, r) ==
    LET old == IF a \in DOMAIN b.arms THEN b.arms[a]
               ELSE [pulls |-> 0, total_reward |-> 0]
    IN [arms |-> [x \in DOMAIN b.arms \cup {a} |->
                    IF x = a THEN [pulls |-> old.pulls + 1,
                                   total_reward |-> old.total_reward + r]
                    ELSE b.arms[x]],
        total_pulls |-> b.total_pulls + 1]

UpdatePcs == {"u21", "u22", "u23", "u24", "u25"}

\* C8: an update call with reward 0 or 1 runs to its return without leaving
\* update by any other way, and at its return the bandit is the bandit of
\* the call with that arm's pulls + 1 (from 0 if the arm was absent), that
\* arm's total_reward + reward and total_pulls + 1, every other arm as it
\* was.
C8_UpdateFrame ==
    [][\A t \in Tasks :
          /\ (task[t].pc \in UpdatePcs /\ task[t]' # task[t]) =>
                \/ task[t].pc # "u25" /\ task[t]'.pc \in UpdatePcs
                \/ task[t].pc = "u25" /\ task[t]'.pc = task[t].ret
          /\ (task[t].pc = "u25" /\ task[t]'.pc # "u25") =>
                /\ task[t].ureward \in {0, 1}
                /\ bandits'[task[t].self]
                      = Applied(task[t].pre, task[t].arm_id, task[t].ureward)
      ]_vars

\* a positive feedback citing "a" and "b" has returned from its update of
\* "a", which had pulls before, while "b" holds what it held
C8_Witness ==
    \E t \in Tasks :
        /\ task[t].pc = "sf56" /\ task[t].i = 2
        /\ task[t].sources = <<"a", "b">> /\ task[t].reward = 1
        /\ DOMAIN bandits[task[t].self].arms = ArmIds
        /\ bandits[task[t].self].arms["a"].pulls >= 2
        /\ bandits[task[t].self].arms["a"].total_reward >= 1
        /\ bandits[task[t].self].arms["b"].pulls >= 1

\* C9: in every state every arm of every bandit has pulls >= 0 and
\* 0 <= total_reward <= pulls.
C9_RewardWithinPulls ==
    \A b \in Tasks : \A a \in DOMAIN bandits[b].arms :
        LET arm == bandits[b].arms[a]
        IN arm.pulls >= 0 /\ 0 <= arm.total_reward /\ arm.total_reward <= arm.pulls

\* after a replay of two or more rows and an accepted negative feedback,
\* "a" has rewards strictly between 0 and its pulls
C9_Witness ==
    /\ AllIdle /\ cache # NoBandit
    /\ \E t \in Tasks : response[t] = [status |-> 200]
    /\ Len(ledger) >= 3
    /\ ledger[Len(ledger)].feedback = "negative"
    /\ "a" \in DOMAIN bandits[cache].arms
    /\ bandits[cache].arms["a"].total_reward >= 1
    /\ bandits[cache].arms["a"].total_reward < bandits[cache].arms["a"].pulls

\* the ledger's events in order, one Update per entry of each sources list
RECURSIVE ApplyEach(_, _, _)
ApplyEach(b, sources, r) ==
    IF sources = << >> THEN b
    ELSE ApplyEach(Applied(b, Head(sources), r), Tail(sources), r)

RowSources(row) ==
    IF "sources" \in DOMAIN row /\ row.sources # None THEN row.sources ELSE << >>
RowReward(row) ==
    IF "feedback" \in DOMAIN row /\ row.feedback = "positive" THEN 1 ELSE 0

RECURSIVE Replay(_)
Replay(rows) ==
    IF rows = << >> THEN [arms |-> << >>, total_pulls |-> 0]
    ELSE LET last == rows[Len(rows)]
         IN ApplyEach(Replay(SubSeq(rows, 1, Len(rows) - 1)),
                      RowSources(last), RowReward(last))

NumPairs(rows) == Sum([n \in DOMAIN rows |-> Len(RowSources(rows[n]))], DOMAIN rows)

\* C10: when the loader returns with every read succeeded, the new bandit
\* is the result of the ledger's events applied in ledger order, one Update
\* per entry of each sources list with reward 1 for "positive" and 0
\* otherwise; its total_pulls is the number of (event, source) pairs.
C10_LoadIsReplay ==
    \A t \in Tasks :
        (task[t].pc = "gb26" /\ task[t].readok) =>
            /\ bandits[task[t].self] = Replay(ledger)
            /\ bandits[task[t].self].total_pulls = NumPairs(ledger)

\* the loader returns from a ledger of three rows (two pages) with more
\* (event, source) pairs than events
C10_Witness ==
    \E t \in Tasks :
        /\ task[t].pc = "gb26" /\ task[t].readok
        /\ Len(ledger) = 3 /\ task[t].count = 3
        /\ NumPairs(ledger) > Len(ledger)
        /\ bandits[task[t].self].total_pulls = NumPairs(ledger)

\* C11: while no handler is running and no ledger read or insert has failed,
\* the cached bandit equals the replay of the ledger from a fresh bandit
\* (what the warm start of a restarted process builds, C10): the same arms
\* with the same pulls and total_reward, and the same total_pulls.
C11_RestartEquivalence ==
    (running = NoTask /\ cache # NoBandit /\ clean) =>
        bandits[cache] = Replay(ledger)

\* a warm start from a ledger with rows, then two feedback events citing
\* sources, both accepted and appended
C11_Witness ==
    /\ running = NoTask /\ cache # NoBandit /\ clean
    /\ nreq = 2
    /\ \A t \in Tasks : response[t] = [status |-> 200]
    /\ Len(ledger) >= 3
    /\ RowSources(ledger[1]) # << >>
    /\ ledger[Len(ledger)].sources # << >>
    /\ ledger[Len(ledger) - 1].sources # << >>
    /\ ledger[Len(ledger)].feedback # ledger[Len(ledger) - 1].feedback
    /\ bandits[cache].total_pulls >= 4

\* C12: when a ledger read has failed during the warm-start replay, on the
\* first page or on a later one, the loader returns to get_bandit (no error
\* reaches the caller) and the bandit it leaves is empty: no arms and
\* total_pulls 0, so that every candidate gets bandit score 0.
C12_ReadFailureLeavesEmpty ==
    \A t \in Tasks :
        (task[t].pc = "gb26" /\ ~task[t].readok) =>
            /\ bandits[task[t].self] = UCB1Bandit
            /\ \A u \in Urls : get_score(bandits[task[t].self], u) = 0

\* the rows of a table in every order of delivery
Orders(rows) ==
    {[n \in DOMAIN rows |-> rows[f[n]]] :
        f \in {g \in [DOMAIN rows -> DOMAIN rows] :
                 \A m, n \in DOMAIN rows : m # n => g[m] # g[n]}}

\* C13: a load whose reads all succeed leaves a bandit that is a function of
\* the ledger alone (so every such load from a fresh bandit gives the same
\* arms, pulls, total_reward and total_pulls), and it is the bandit that the
\* replay of the same rows in any other order of delivery gives.
C13_RebuildIdempotent ==
    \A t \in Tasks :
        (task[t].pc = "gb26" /\ task[t].readok) =>
            \A rows \in Orders(ledger) : bandits[task[t].self] = Replay(rows)

\* the loader returns from three rows on two pages, the first two citing "a"
\* with different rewards
C13_Witness ==
    \E t \in Tasks :
        /\ task[t].pc = "gb26" /\ task[t].readok /\ task[t].count = 3
        /\ Len(ledger) = 3
        /\ RowSources(ledger[1]) = <<"a">> /\ RowReward(ledger[1]) = 1
        /\ RowSources(ledger[2]) = <<"a", "b">> /\ RowReward(ledger[2]) = 0
        /\ Cardinality(Orders(ledger)) >= 3
        /\ bandits[task[t].self].arms["a"].pulls >= 2

\* the bandit that the update calls made so far on object b build
IssuedBandit(b) ==
    [arms |-> [a \in {u \in Urls : issued[b][u].n > 0} |->
                  [pulls |-> issued[b][a].n, total_reward |-> issued[b][a].p]],
     total_pulls |-> Sum([a \in Urls |-> issued[b][a].n], Urls)]

\* C14: when a feedback handler stands before its ledger insert, the update
\* of every cited source has returned (with no failed read or insert so far
\* the bandit already is the replay of the ledger with the event's row
\* added); the ledger changes only in that step, which leaves the bandit
\* alone; and every bandit score in an /ask response is the score on the
\* bandit of all update calls made so far, whether their rows reached the
\* ledger or not.
C14_UpdateBeforeAppend ==
    /\ [](\A t \in Tasks :
            task[t].pc = "sf59" =>
                /\ task[t].i = Len(task[t].sources) + 1
                /\ bandits[task[t].self] = IssuedBandit(task[t].self)
                /\ clean => bandits[task[t].self] =
                      Replay(Append(ledger, [sources |-> task[t].sources,
                                             feedback |-> task[t].feedback])))
    /\ [][/\ ledger' # ledger =>
                /\ \E t \in Tasks : task[t].pc = "sf59" /\ task[t]'.pc = "idle"
                /\ bandits' = bandits
          /\ \A t \in Tasks :
                (task[t].pc = "rag71" /\ "docs" \in DOMAIN response'[t]) =>
                    \A n \in DOMAIN response'[t].docs :
                        response'[t].docs[n].ucb1_score =
                            get_score(IssuedBandit(cache), response'[t].docs[n].url)
       ]_vars

\* a feedback for "b" was applied and its insert failed (no row of the
\* ledger cites "b"); the /ask request answered after it reports the
\* bandit score of "b" that the feedback made
C14_Witness ==
    /\ running = NoTask /\ cache # NoBandit
    /\ response[1] = [status |-> 500]
    /\ \A n \in DOMAIN ledger : \A m \in DOMAIN RowSources(ledger[n]) :
          RowSources(ledger[n])[m] # "b"
    /\ issued[cache]["b"] = [n |-> 1, p |-> 1]
    /\ \E d \in AskDocs(2) : d.url = "b" /\ d.ucb1_score >= Scale

\* C15: the step in which a feedback handler ends after its updates leaves
\* the bandit as the updates made it (nothing is rolled back); when the
\* insert failed the ledger is unchanged and the response is an error that
\* is neither the success response (200) nor the validation rejection (422);
\* the success response is given only with the event's row appended.
C15_AppendFailureReported ==
    [][\A t \in Tasks :
          (task[t].pc = "sf59" /\ task[t]'.pc = "idle") =>
              /\ bandits' = bandits
              /\ bandits[task[t].self] = IssuedBandit(task[t].self)
              /\ task[t].i = Len(task[t].sources) + 1
              /\ IF ledger' = ledger
                 THEN response'[t].status \notin {200, 422}
                 ELSE /\ ledger' = Append(ledger, [sources |-> task[t].sources,
                                                 feedback |-> task[t].feedback])
                      /\ response'[t].status = 200
      ]_vars

\* the one feedback there was cited "a" and "b" and got the error response:
\* the ledger is empty and the bandit holds both updates
C15_Witness ==
    /\ running = NoTask /\ cache # NoBandit /\ ~clean
    /\ ledger = << >>
    /\ \E t \in Tasks : response[t] = [status |-> 500]
    /\ DOMAIN bandits[cache].arms = ArmIds
    /\ bandits[cache].total_pulls = 2
    /\ bandits[cache] # Replay(ledger)

\* C16: store_feedback never runs with a label other than "positive" and
\* "negative" (so no such label becomes a reward of 0), no row with another
\* label is appended, and the step that answers a request with the
\* validation rejection is taken before the handler body and changes
\* neither a bandit, nor the cache, nor the ledger.
C16_InvalidLabelRejected ==
    /\ [](\A t \in Tasks : task[t].feedback \in FeedbackType \cup {""})
    /\ [][/\ ledger' # ledger =>
                ledger'[Len(ledger')].feedback \in FeedbackType
          /\ \A t \in Tasks :
                (response'[t] = [status |-> 422] /\ response[t] # response'[t]) =>
                    /\ task[t].pc = "start"
                    /\ UNCHANGED <<ledger, bandits, cache, issued, clean>>
       ]_vars

\* a request with an unknown label was rejected after an accepted feedback:
\* the bandit and the ledger hold that feedback and nothing else new
C16_Witness ==
    /\ running = NoTask /\ cache # NoBandit /\ clean
    /\ nreq = 2
    /\ \E t \in Tasks : response[t] = [status |-> 422]
    /\ \E t \in Tasks : response[t] = [status |-> 200]
    /\ Len(ledger) >= 2
    /\ ledger[Len(ledger)].sources = <<"a", "b">>
    /\ bandits[cache] = Replay(ledger)
    /\ bandits[cache].total_pulls >= 3

\* the place of the candidate with this url in what the vector store returned
Pos(data, url) == CHOOSE n \in DOMAIN data : data[n].url = url

\* C17: in the list an /ask request returns, every entry is a candidate
\* received, with final_score = similarity + the bandit's score of its url,
\* and of any two entries the earlier has the strictly higher final_score,
\* or the same final_score and the earlier place in the retrieval; so the
\* candidates and the bandit state decide the order.
C17_RerankOrder ==
    [][\A t \in Tasks :
          (task[t].pc = "rag71" /\ "docs" \in DOMAIN response'[t]) =>
              LET docs == response'[t].docs
                  data == task[t].data
                  b == bandits[task[t].self]
              IN /\ \A n \in DOMAIN docs :
                        \E m \in DOMAIN data :
                            /\ docs[n].url = data[m].url
                            /\ docs[n].vector_score = data[m].similarity
                            /\ docs[n].ucb1_score = get_score(b, data[m].url)
                            /\ docs[n].final_score
                                  = data[m].similarity + get_score(b, data[m].url)
                 /\ \A m, n \in DOMAIN docs :
                        m < n =>
                            \/ docs[m].final_score > docs[n].final_score
                            \/ /\ docs[m].final_score = docs[n].final_score
                               /\ Pos(data, docs[m].url) < Pos(data, docs[n].url)
      ]_vars

\* "b", retrieved second with similarity 0.85 and a bandit score of 0.5 or
\* more, is returned before "a", retrieved first with similarity 0.9 and
\* bandit score 0.0
C17_Witness ==
    \E t \in Tasks :
        /\ "docs" \in DOMAIN response[t]
        /\ Len(response[t].docs) = 2
        /\ response[t].docs[1].url = "b"
        /\ response[t].docs[1].vector_score = 8500
        /\ response[t].docs[1].ucb1_score >= 5000
        /\ response[t].docs[2].url = "a"
        /\ response[t].docs[2].vector_score = 9000
        /\ response[t].docs[2].ucb1_score = 0

\* C18: for a request with top_k = K, the candidates received are the first
\* 2K the vector store ranks (all of them if it ranks fewer); the list
\* returned has min(K, n) entries for n candidates received, each of them a
\* candidate received and no two the same one, and no candidate left out
\* has a strictly higher final_score than one returned.
C18_TwiceKThenTopK ==
    [][\A t \in Tasks :
          (task[t].pc = "rag71" /\ "docs" \in DOMAIN response'[t]) =>
              LET docs == response'[t].docs
                  data == task[t].data
                  K == task[t].top_k
                  b == bandits[task[t].self]
                  final(m) == data[m].similarity + get_score(b, data[m].url)
                  kept == {Pos(data, docs[n].url) : n \in DOMAIN docs}
              IN /\ data = SubSeq(task[t].hits, 1, Min(2 * K, Len(task[t].hits)))
                 /\ Len(docs) = Min(K, Len(data))
                 /\ \A n \in DOMAIN docs : \E m \in DOMAIN data : data[m].url = docs[n].url
                 /\ Cardinality(kept) = Len(docs)
                 /\ \A m \in DOMAIN data \ kept : \A n \in kept : final(m) <= final(n)
      ]_vars

\* top_k = 1 with three documents ranked: "c" and "b" are received, "b" is
\* returned, and "a", which the bandit would have put first, was not fetched
C18_Witness ==
    \E t \in Tasks :
        /\ "docs" \in DOMAIN response[t]
        /\ Len(response[t].docs) = 1
        /\ response[t].docs[1].url = "b"
        /\ response[t].docs[1].vector_score = 9000
        /\ response[t].docs[1].ucb1_score > 0
        /\ cache # NoBandit
        /\ 7000 + get_score(bandits[cache], "a") > response[t].docs[1].final_score

\* C19: the vector-store call of an /ask request either delivers the
\* candidates the store ranks, or it fails and the request ends there with
\* an error response that carries no list, with the bandits, the cache and
\* the ledger as they were; a response carries a list only at the end of a
\* pipeline whose vector-store call delivered.
C19_VectorFailureFailsRequest ==
    [][\A t \in Tasks :
          /\ (task[t].pc = "rag52" /\ task[t]'.pc # "rag52") =>
                IF task[t]'.pc = "idle"
                THEN /\ response'[t] = [status |-> 500]
                     /\ UNCHANGED <<bandits, cache, ledger, issued>>
                ELSE task[t]'.data =
                        SubSeq(task[t].hits, 1,
                               Min(2 * task[t].top_k, Len(task[t].hits)))
          /\ ("docs" \in DOMAIN response'[t] /\ response'[t] # response[t]) =>
                task[t].pc = "rag71"
      ]_vars

\* the vector-store call of the first request of the process failed: the
\* error response, no bandit constructed, the ledger as it was
C19_Witness ==
    /\ running = NoTask /\ nreq = 1
    /\ response[1] = [status |-> 500]
    /\ cache = NoBandit
    /\ \A b \in Tasks : bandits[b] = UCB1Bandit
    /\ Len(ledger) >= 2 /\ clean

\* C20: a bandit whose counters are not those of whole update calls (an
\* arm's pulls raised without its total_reward or without total_pulls) exists
\* only while the task that is inside update on it holds the event loop: no
\* other task runs, so none reads it, until all three counters are changed;
\* and a task that stands before a Score call finds whole updates only.
C20_UpdateAtomicForReaders ==
    /\ \A b \in Tasks :
          bandits[b] # IssuedBandit(b) =>
              \E t \in Tasks :
                  /\ running = t
                  /\ task[t].self = b
                  /\ task[t].pc \in UpdatePcs
    /\ \A t \in Tasks :
          task[t].pc = "rag71" =>
              /\ bandits[task[t].self] = IssuedBandit(task[t].self)
              /\ bandits[task[t].self].total_pulls = SumPulls(bandits[task[t].self])

\* a feedback handler is inside update with the arm's pulls raised and
\* total_pulls not yet, while a second request waits for the event loop
C20_Witness ==
    \E t, u \in Tasks :
        /\ t # u
        /\ running = t /\ task[t].pc = "u24" /\ task[t].ret = "sf56"
        /\ task[u].pc = "queued"
        /\ cache = task[t].self
        /\ bandits[cache].total_pulls >= 2
        /\ SumPulls(bandits[cache]) = bandits[cache].total_pulls + 1

\* task t is inside load_from_supabase, or has returned from it to get_bandit
InLoad(t) ==
    \/ task[t].pc \in {"l53", "l62", "l66", "gb26"}
    \/ task[t].pc \in UpdatePcs /\ task[t].ret = "l66"

\* C21: while a task is inside the warm-start replay, the bandit it fills is
\* not yet the cached one, the task holds the event loop, and every other
\* task is idle or waiting and holds no bandit (so no live Update or Score
\* runs on it); when the loader returns, the bandit is the replay of the
\* rows it counted and of nothing else.
C21_ReplayBeforeTraffic ==
    \A t \in Tasks :
        InLoad(t) =>
            /\ cache = NoBandit
            /\ running = t
            /\ \A u \in Tasks \ {t} :
                  task[u].pc \in {"idle", "queued"} /\ task[u].self = NoBandit
            /\ task[t].pc = "gb26" =>
                  bandits[task[t].self] = Replay(SubSeq(ledger, 1, task[t].count))

\* the replay is on its second page, inside an update, while a second
\* request waits for the event loop
C21_Witness ==
    \E t, u \in Tasks :
        /\ t # u
        /\ task[t].pc = "u23" /\ task[t].ret = "l66"
        /\ task[t].offset >= page_size
        /\ task[u].pc = "queued"
        /\ bandits[task[t].self].total_pulls >= 1

\* C22: one bandit object serves the process.  Every object that has
\* received an update is the cached one, or the one the running task is
\* loading while nothing is cached yet; a task holds no other object; once
\* an object is cached it stays the cached one and no load runs again; and
\* a load starts only with nothing cached, on a fresh object.
C22_SingleInstanceLoadedOnce ==
    /\ [](\A b \in Tasks :
            /\ (bandits[b] # UCB1Bandit \/ issued[b] # NoIssue) =>
                  \/ cache = b
                  \/ cache = NoBandit /\ running = b /\ InLoad(b)
            /\ task[b].self \in {NoBandit, cache}
                  \/ (cache = NoBandit /\ task[b].self = b /\ InLoad(b))
            /\ cache # NoBandit => ~InLoad(b))
    /\ [][/\ cache # NoBandit => cache' = cache
          /\ \A t \in Tasks :
                (task[t].pc = "gb" /\ task[t]'.pc = "l53") =>
                    /\ cache = NoBandit
                    /\ bandits'[task[t]'.self] = UCB1Bandit
                    /\ issued[task[t]'.self] = NoIssue
       ]_vars

\* two requests arrived before the bandit existed; the second to arrive ran
\* first and built the bandit, a feedback updated it, and the other, an /ask,
\* scored on that same object
C22_Witness ==
    /\ running = NoTask /\ cache = 2 /\ clean
    /\ response[2] = [status |-> 200]
    /\ \E d \in AskDocs(1) : d.url = "b" /\ d.ucb1_score > 0
    /\ bandits[1] = UCB1Bandit /\ issued[1] = NoIssue
    /\ ledger[Len(ledger)].sources = <<"b">>
    /\ bandits[2] = Replay(ledger)
    /\ PullsOf(bandits[2], "a") >= 1

\* C23: while a task stands in the ledger insert or in the vector-store
\* call, a request that waits can be given the event loop, so that its
\* Update and Score calls proceed.
C23_IoOutsideCriticalSection ==
    \A t, u \in Tasks :
        (/\ t # u
         /\ running = t /\ task[t].pc \in {"sf59", "rag52"}
         /\ task[u].pc = "queued")
            => ENABLED dispatch(u)

\* C24: in every step, every bandit object keeps its arms, no arm's pulls or
\* total_reward gets smaller, total_pulls does not get smaller, and a bandit
\* object changes only in a step of update made by a task that holds it.
C24_OnlyAccumulates ==
    [][\A b \in Tasks :
          /\ DOMAIN bandits[b].arms \subseteq DOMAIN bandits'[b].arms
          /\ \A a \in DOMAIN bandits[b].arms :
                /\ bandits'[b].arms[a].pulls >= bandits[b].arms[a].pulls
                /\ bandits'[b].arms[a].total_reward >= bandits[b].arms[a].total_reward
          /\ bandits'[b].total_pulls >= bandits[b].total_pulls
          /\ bandits'[b] # bandits[b] =>
                \E t \in Tasks :
                    /\ running = t /\ task[t].self = b
                    /\ task[t].pc \in {"u22", "u23", "u24", "u25"}
      ]_vars

\* the replay of three rows and a feedback citing both arms have all added
\* to the one bandit
C24_Witness ==
    /\ running = NoTask /\ cache # NoBandit /\ clean
    /\ Len(ledger) = 4
    /\ \E t \in Tasks : response[t] = [status |-> 200]
    /\ DOMAIN bandits[cache].arms = ArmIds
    /\ bandits[cache].arms["a"].pulls >= 4
    /\ bandits[cache].arms["b"].pulls >= 2
    /\ bandits[cache].arms["a"].total_reward >= 2
    /\ bandits[cache].total_pulls >= 6

\* C25: the loader reads at offsets 0, page_size, 2 * page_size, ...; a page
\* it works on is the 1 .. page_size ledger rows from its offset, and the
\* rows counted are exactly those before the row at hand; the loop goes on
\* to the next read only after a full page and is left after a short or an
\* empty one; with every read succeeded each ledger row has been counted
\* and applied once; and every load that has started comes to its return.
C25_LoaderTerminates ==
    /\ [](\A t \in Tasks :
            LET l == task[t]
            IN /\ (l.pc \in {"l62", "l66"} \/ (l.pc \in UpdatePcs /\ l.ret = "l66")) =>
                     /\ l.offset % page_size = 0
                     /\ Len(l.rows) \in 1..page_size
                     /\ l.rows = SubSeq(ledger, l.offset + 1, l.offset + Len(l.rows))
                     /\ l.count = l.offset + l.r - 1
               /\ (l.pc = "gb26" /\ l.readok) =>
                     /\ l.count = Len(ledger)
                     /\ bandits[l.self].total_pulls = NumPairs(ledger))
    /\ [][\A t \in Tasks :
            /\ (task[t].pc = "l62" /\ task[t]'.pc = "l53") =>
                  /\ Len(task[t].rows) = page_size
                  /\ task[t]'.offset = task[t].offset + page_size
            /\ (task[t].pc = "l62" /\ task[t]'.pc = "gb26") =>
                  Len(task[t].rows) < page_size
            /\ (task[t].pc = "l53" /\ task[t]'.pc = "gb26" /\ task[t]'.readok) =>
                  task[t].offset >= Len(ledger)
       ]_vars
    /\ \A t \in Tasks : [](task[t].pc = "l53" => <>(task[t].pc = "gb26"))

\* a ledger of exactly one full page: the loader read it, read an empty
\* second page, and returned with every row counted
C25_Witness ==
    \E t \in Tasks :
        /\ task[t].pc = "gb26" /\ task[t].readok
        /\ Len(ledger) = page_size
        /\ task[t].offset = page_size /\ task[t].rows = << >>
        /\ task[t].count = page_size
        /\ bandits[task[t].self].total_pulls >= page_size

\* C26: no score is negative; with total_pulls > 1 an arm with pulls >= 1
\* scores strictly above 0, total_reward 0 included; and in a re-ranking
\* under total_pulls > 1, of two candidates with the same similarity, one
\* with pulls >= 1 and one without an arm, the first has the strictly higher
\* final_score, and the second is returned only after it.
C26_PulledArmScoresPositive ==
    /\ [](\A b \in Tasks : \A u \in Urls :
            /\ get_score(bandits[b], u) >= 0
            /\ (/\ bandits[b].total_pulls > 1
                /\ u \in DOMAIN bandits[b].arms
                /\ bandits[b].arms[u].pulls >= 1) => get_score(bandits[b], u) > 0)
    /\ [][\A t \in Tasks :
            (task[t].pc = "rag71" /\ "docs" \in DOMAIN response'[t]) =>
                LET docs == response'[t].docs
                    data == task[t].data
                    b == bandits[task[t].self]
                IN \A m, n \in DOMAIN data :
                      (/\ b.total_pulls > 1
                       /\ data[m].similarity = data[n].similarity
                       /\ data[m].url \in DOMAIN b.arms
                       /\ b.arms[data[m].url].pulls >= 1
                       /\ data[n].url \notin DOMAIN b.arms)
                        => \A j \in DOMAIN docs :
                              docs[j].url = data[n].url =>
                                  \E i \in 1..(j - 1) :
                                      /\ docs[i].url = data[m].url
                                      /\ docs[i].ucb1_score > docs[j].ucb1_score
                                      /\ docs[i].final_score > docs[j].final_score
       ]_vars

\* "b" has two pulls and no reward, "c" has no arm; "c" is retrieved before
\* "b" with the same similarity 0.9, and "b" is returned first
C26_Witness ==
    \E t \in Tasks :
        /\ cache # NoBandit
        /\ bandits[cache].total_pulls > 1
        /\ "b" \in DOMAIN bandits[cache].arms
        /\ bandits[cache].arms["b"] = [pulls |-> 2, total_reward |-> 0]
        /\ "docs" \in DOMAIN response[t]
        /\ Len(response[t].docs) = 2
        /\ response[t].docs[1].url = "b"
        /\ response[t].docs[1].vector_score = 9000
        /\ response[t].docs[1].ucb1_score > 0
        /\ response[t].docs[2].url = "c"
        /\ response[t].docs[2].vector_score = 9000
        /\ response[t].docs[2].ucb1_score = 0

\* C27: scoring and re-ranking the candidates of a query changes no bandit
\* (no arm made, no counter changed), the cache and the ledger neither, and
\* so every arm in an arm table is one an update call was made for.
C27_ScoreQueriesReadOnly ==
    /\ [](\A b \in Tasks : \A u \in DOMAIN bandits[b].arms : issued[b][u].n >= 1)
    /\ [][\A t \in Tasks :
            (running = t /\ task[t].pc = "rag71") =>
                /\ task[t].self = cache
                /\ UNCHANGED <<bandits, issued, cache, ledger>>
       ]_vars

\* a query whose candidates include "c", which has no arm, has been answered
\* with "c" in the list at bandit score 0, beside "a" with a positive one;
\* the bandit is still what the ledger replays to, without an arm for "c"
C27_Witness ==
    \E t \in Tasks :
        /\ cache # NoBandit /\ clean
        /\ "docs" \in DOMAIN response[t]
        /\ \E d, e \in AskDocs(t) :
              /\ d.url = "c" /\ d.ucb1_score = 0
              /\ e.url = "a" /\ e.ucb1_score > 0
        /\ bandits[cache] = Replay(ledger)
        /\ bandits[cache].total_pulls >= 1
        /\ "c" \notin DOMAIN bandits[cache].arms
        /\ issued[cache]["c"].n = 0

\* the number of entries of a row's sources list that are url u: none when
\* the sources are missing, null or empty
Cites(row, u) ==
    IF "sources" \notin DOMAIN row \/ row.sources = None THEN 0
    ELSE Cardinality({m \in DOMAIN row.sources : row.sources[m] = u})

\* C28: the load ends in the except clause through a failing read only,
\* whatever the rows hold; between rows and at the return, count is the
\* number of rows gone through, those without sources included, each url's
\* pulls is the number of times those rows cite it, and its total_reward the
\* number of times rows labelled exactly "positive" cite it (any other label
\* and a missing one are reward 0).
C28_RowContentNeverFails ==
    /\ [][\A t \in Tasks :
            (task[t].readok /\ ~task[t]'.readok) => task[t].pc = "l53"]_vars
    /\ [](\A t \in Tasks :
            LET l == task[t]
                done == l.count
                b == bandits[l.self]
                cited(u, rows) == Sum([n \in rows |-> Cites(ledger[n], u)], rows)
                positive == {n \in 1..done : /\ "feedback" \in DOMAIN ledger[n]
                                              /\ ledger[n].feedback = "positive"}
            IN /\ l.pc = "l62" => done = l.offset + l.r - 1
               /\ (l.pc = "gb26" /\ l.readok) => done = Len(ledger)
               /\ (l.pc = "l62" \/ (l.pc = "gb26" /\ l.readok)) =>
                     \A u \in Urls :
                        /\ PullsOf(b, u) = cited(u, 1..done)
                        /\ RewardOf(b, u) = cited(u, positive))

\* a table of a row with null sources, a row with an unrecognised label
\* citing "a" and "b", and a row without label citing "b" has been loaded:
\* three rows counted, three pulls, no reward
C28_Witness ==
    \E t \in Tasks :
        /\ task[t].pc = "gb26" /\ task[t].readok
        /\ ledger = << [sources |-> None, feedback |-> "negative"],
                       [sources |-> <<"a", "b">>, feedback |-> "bogus"],
                       [sources |-> <<"b">>] >>
        /\ task[t].count = 3
        /\ bandits[task[t].self] =
              [arms |-> [u \in ArmIds |->
                            [pulls |-> IF u = "a" THEN 1 ELSE 2, total_reward |-> 0]],
               total_pulls |-> 3]

\* C29: an arm with pulls = 0 exists only while the running task is between
\* lines 22 and 23 of update for that arm, so never between two updates,
\* after the load or after an ingestion; and when the candidates of a query
\* are scored, every candidate that has an arm has pulls >= 1 (get_score
\* divides by a positive number and its `pulls == 0` test is false).
C29_PresentArmsPulled ==
    /\ \A b \in Tasks : \A a \in DOMAIN bandits[b].arms :
            bandits[b].arms[a].pulls = 0 =>
                \E t \in Tasks :
                    /\ running = t /\ task[t].self = b
                    /\ task[t].pc = "u23" /\ task[t].arm_id = a
    /\ \A t \in Tasks :
            At(t, "rag71") =>
                \A n \in DOMAIN task[t].data :
                    LET u == task[t].data[n].url
                        b == bandits[task[t].self]
                    IN u \in DOMAIN b.arms => b.arms[u].pulls >= 1

\* the table was replayed, a feedback event was ingested on top of it, and a
\* query was answered with positive bandit scores for both arms
C29_Witness ==
    /\ cache # NoBandit /\ clean /\ AllIdle
    /\ Len(ledger) = MaxHistory + 1
    /\ bandits[cache] = Replay(ledger)
    /\ DOMAIN bandits[cache].arms = ArmIds
    /\ \A a \in ArmIds : bandits[cache].arms[a].pulls >= 1
    /\ \E t \in Tasks : \E d, e \in AskDocs(t) :
          /\ d.url = "a" /\ d.ucb1_score > 0
          /\ e.url = "b" /\ e.ucb1_score > 0

====
